---------------------------- MODULE Spec2Model ----------------------------
(***************************************************************************)
(* Model of the Downloader interface (v2/interfaces/downloader.py) and of  *)
(* the GCS connector's access configuration                                *)
(* (v2/processes/connectors/fsspec/gcs.py) of unstructured-ingest.         *)
(*                                                                         *)
(* Python values are tagged records: None, str (a sequence of one-character*)
(* strings), Path (a root and a sequence of segments, as pathlib's         *)
(* PurePosixPath keeps them), float, dict.                                 *)
(***************************************************************************)
EXTENDS Integers, Sequences, FiniteSets, TLC

VARIABLES
    connector_type,   \* Downloader.connector_type
    download_config,  \* Downloader.download_config (DownloaderConfig)
    file_data,        \* the FileData argument(s) of the calls
    op,               \* the last completed call: name, arguments' result, error
    returned,         \* the values the download_dir property has returned so far
    file_times,       \* (atime, mtime) of the file at download_path
    pc,               \* position of each concurrent caller
    run_calls,        \* the invocations of the abstract run(), in order
    access_config,    \* GcsAccessConfig: service_account_key, token
    fs_files          \* the paths that are existing regular files

vars == <<connector_type, download_config, file_data, op, returned, file_times,
          pc, run_calls, access_config, fs_files>>

-----------------------------------------------------------------------------
(* Bounds of the model.                                                    *)

MaxRelLen == 4      \* longest relative_path tried
MaxCalls == 3       \* calls made on one Downloader in a sequential run
MaxDateLen == 2     \* longest date string enumerated over DateAlphabet
MaxKeyLen == 2      \* longest service_account_key enumerated over KeyAlphabet
NumCallers == 2     \* concurrent callers of get_download_path

-----------------------------------------------------------------------------
(* Python values.                                                          *)

None == [t |-> "None"]

PyStr(cs) == [t |-> "str", s |-> cs]

RECURSIVE Str(_)
\* the characters of cs as one string
Str(cs) == IF cs = <<>> THEN "" ELSE cs[1] \o Str(Tail(cs))

RECURSIVE StringsUpTo(_, _)
\* every sequence over alphabet of length at most n
StringsUpTo(alphabet, n) ==
    IF n = 0 THEN {<<>>}
    ELSE LET shorter == StringsUpTo(alphabet, n - 1)
         IN  shorter \cup {Append(s, c) : s \in shorter, c \in alphabet}

\* bool(x) of an Optional[str]: None and "" are falsy
Truthy(x) == x # None /\ x.s # <<>>

-----------------------------------------------------------------------------
(* pathlib: PurePosixPath parsing, joining and lexical containment.        *)

RECURSIVE LeadingSlashes(_)
LeadingSlashes(s) ==
    IF s # <<>> /\ s[1] = "/" THEN 1 + LeadingSlashes(Tail(s)) ELSE 0

RECURSIVE SplitSlash(_, _)
\* s.split("/"), cur being the segment under construction
SplitSlash(s, cur) ==
    IF s = <<>> THEN <<cur>>
    ELSE IF s[1] = "/" THEN <<cur>> \o SplitSlash(Tail(s), <<>>)
    ELSE SplitSlash(Tail(s), Append(cur, s[1]))

RECURSIVE KeepSegments(_)
\* pathlib drops empty and "." segments
KeepSegments(segs) ==
    IF segs = <<>> THEN <<>>
    ELSE IF Head(segs) = <<>> \/ Head(segs) = <<".">> THEN KeepSegments(Tail(segs))
    ELSE <<Str(Head(segs))>> \o KeepSegments(Tail(segs))

\* Path(s): exactly two leading slashes are kept as the root "//" (POSIX),
\* any other number of leading slashes is the root "/"
ParsePath(s) ==
    LET n == LeadingSlashes(s)
    IN  [t |-> "Path",
         root |-> IF n = 0 THEN "" ELSE IF n = 2 THEN "//" ELSE "/",
         parts |-> KeepSegments(SplitSlash(s, <<>>))]

\* a / b: an absolute right operand replaces the left one
PathJoin(a, b) ==
    IF b.root # "" THEN b ELSE [a EXCEPT !.parts = a.parts \o b.parts]

RECURSIVE NormParts(_, _, _)
\* os.path.normpath on the segments: ".." removes the segment before it, is
\* dropped at the root and is kept at the start of a relative path
NormParts(root, parts, acc) ==
    IF parts = <<>> THEN acc
    ELSE IF Head(parts) # ".." THEN NormParts(root, Tail(parts), Append(acc, Head(parts)))
    ELSE IF acc # <<>> /\ acc[Len(acc)] # ".."
         THEN NormParts(root, Tail(parts), SubSeq(acc, 1, Len(acc) - 1))
    ELSE IF root # "" THEN NormParts(root, Tail(parts), acc)
    ELSE NormParts(root, Tail(parts), Append(acc, ".."))

\* p names a location inside directory d
RootedUnder(p, d) ==
    LET np == NormParts(p.root, p.parts, <<>>)
        nd == NormParts(d.root, d.parts, <<>>)
    IN  /\ p.root = d.root
        /\ Len(np) >= Len(nd)
        /\ SubSeq(np, 1, Len(nd)) = nd

-----------------------------------------------------------------------------
(* Downloader: download_dir and get_download_path.                         *)

\* Path.home()
Home == [t |-> "Path", root |-> "/", parts |-> <<"home", "user">>]

\* (Path.home() / ".cache" / "unstructured" / "ingest" / "download"
\*     / self.connector_type).resolve()
DefaultDownloadDir(ct) ==
    [Home EXCEPT !.parts = @ \o <<".cache", "unstructured", "ingest", "download", ct>>]

\* the property always recomputes the default: a user's override is lost
download_dir_always_default(cfg, ct) ==
    [cfg EXCEPT !.download_dir = DefaultDownloadDir(ct)]

\* the download_dir property: the configuration after the access
download_dir_resolve(cfg, ct) ==
    IF cfg.download_dir = None
    THEN [cfg EXCEPT !.download_dir = DefaultDownloadDir(ct)]
    ELSE cfg

\* rel_path.lstrip("/") instead of dropping one character
strip_leading_all(rel) ==
    SubSeq(rel, LeadingSlashes(rel) + 1, Len(rel))

\* rel_path[1:] if rel_path.startswith("/") else rel_path
strip_leading(rel) ==
    IF rel # <<>> /\ rel[1] = "/" THEN Tail(rel) ELSE rel

\* `if rel_path is None` instead of `if not rel_path`
lacks_rel_path_is_none(fd) ==
    \/ fd.source_identifiers = None
    \/ fd.source_identifiers.relative_path = None

\* the two early returns of get_download_path
lacks_rel_path(fd) ==
    \/ fd.source_identifiers = None
    \/ ~Truthy(fd.source_identifiers.relative_path)

\* get_download_path's result, dir being what self.download_dir returns
get_download_path(fd, dir) ==
    IF lacks_rel_path(fd) THEN None
    ELSE PathJoin(dir, ParsePath(strip_leading(fd.source_identifiers.relative_path.s)))

-----------------------------------------------------------------------------
(* Inputs of the sequential Downloader runs.                               *)

ConnectorTypes == {"gcs", "azure"}

\* download_config.download_dir as the user may give it
UserDownloadDirs ==
    {None,
     [t |-> "Path", root |-> "/", parts |-> <<"data">>],
     [t |-> "Path", root |-> "", parts |-> <<"out">>]}

RelAlphabet == {"/", ".", "a"}

NoMetadata == [date_modified |-> None, date_created |-> None]

SourceIdentifiers(rel) == [t |-> "SourceIdentifiers", relative_path |-> rel]

FileDatas ==
    {[source_identifiers |-> None, metadata |-> NoMetadata]}
    \cup {[source_identifiers |-> SourceIdentifiers(None), metadata |-> NoMetadata]}
    \cup {[source_identifiers |-> SourceIdentifiers(PyStr(r)), metadata |-> NoMetadata]
            : r \in StringsUpTo(RelAlphabet, MaxRelLen)}

NoOp == [name |-> "none", ret |-> None, raised |-> ""]

-----------------------------------------------------------------------------
(* Sequential use of one Downloader.                                       *)

IdleRest ==
    /\ file_times = <<None, None>>
    /\ pc = <<>>
    /\ run_calls = <<>>
    /\ access_config = None
    /\ fs_files = {}

Init ==
    /\ connector_type \in ConnectorTypes
    /\ download_config \in {[download_dir |-> d] : d \in UserDownloadDirs}
    /\ file_data = None
    /\ op = NoOp
    /\ returned = <<>>
    /\ IdleRest

\* an access of self.download_dir
AccessDownloadDir ==
    /\ Len(returned) < MaxCalls
    /\ download_config' = download_dir_resolve(download_config, connector_type)
    /\ op' = [name |-> "download_dir", ret |-> download_config'.download_dir, raised |-> ""]
    /\ returned' = Append(returned, download_config'.download_dir)
    /\ UNCHANGED <<connector_type, file_data, file_times, pc, run_calls,
                   access_config, fs_files>>

\* self.get_download_path(fd); download_dir is accessed only on the last line
GetDownloadPath ==
    \E fd \in FileDatas :
        /\ Len(returned) < MaxCalls
        /\ file_data' = fd
        /\ IF lacks_rel_path(fd)
           THEN /\ UNCHANGED <<download_config, returned>>
                /\ op' = [name |-> "get_download_path", ret |-> None, raised |-> ""]
           ELSE /\ download_config' = download_dir_resolve(download_config, connector_type)
                /\ returned' = Append(returned, download_config'.download_dir)
                /\ op' = [name |-> "get_download_path",
                          ret |-> get_download_path(fd, download_config'.download_dir),
                          raised |-> ""]
        /\ UNCHANGED <<connector_type, file_times, pc, run_calls, access_config, fs_files>>

Next == AccessDownloadDir \/ GetDownloadPath

Spec == Init /\ [][Next]_vars

-----------------------------------------------------------------------------
(* Claims about download_dir and get_download_path (specification Spec).   *)

\* the relative path of the last get_download_path call, when it has one
RelOf(fd) == fd.source_identifiers.relative_path.s

CalledGetDownloadPath == op.name = "get_download_path"

\* C1: whenever get_download_path returns a path, that path lies inside the
\* resolved download_dir, whatever relative_path is (several leading '/',
\* '..' segments included).
C1_RootedUnderDownloadDir ==
    (CalledGetDownloadPath /\ op.ret # None)
        => RootedUnder(op.ret, download_config.download_dir)

\* C4: get_download_path returns None exactly when source_identifiers is
\* absent or relative_path is absent or empty; otherwise it returns a path.
C4_NoneIffNoRelativePath ==
    CalledGetDownloadPath =>
        LET absent == \/ file_data.source_identifiers = None
                      \/ file_data.source_identifiers.relative_path = None
                      \/ file_data.source_identifiers.relative_path.s = <<>>
        IN  /\ absent => op.ret = None
            /\ ~absent => (op.ret # None /\ op.ret.t = "Path")

\* both outcomes of C4 have been seen: here a path for a non-empty relative_path
C4_Witness ==
    /\ CalledGetDownloadPath
    /\ file_data.source_identifiers # None
    /\ file_data.source_identifiers.relative_path = PyStr(<<"a">>)
    /\ op.ret # None

\* C5: a relative_path that begins with '/' loses exactly its first
\* character and the rest is joined to download_dir; any other relative_path
\* is joined to download_dir unchanged.
C5_StripsExactlyOneSlash ==
    (CalledGetDownloadPath /\ ~lacks_rel_path(file_data)) =>
        LET rel == RelOf(file_data)
            dir == download_config.download_dir
        IN  /\ rel[1] = "/" =>
                op.ret = PathJoin(dir, ParsePath(SubSeq(rel, 2, Len(rel))))
            /\ rel[1] # "/" => op.ret = PathJoin(dir, ParsePath(rel))

\* a relative_path with two leading '/' went through get_download_path: one
\* '/' is left, so the remainder is absolute
C5_Witness ==
    /\ CalledGetDownloadPath
    /\ ~lacks_rel_path(file_data)
    /\ RelOf(file_data) = <<"/", "/", "a">>
    /\ op.ret = [t |-> "Path", root |-> "/", parts |-> <<"a">>]

-----------------------------------------------------------------------------
(* float(str), as CPython parses it. A float is "nan", "inf" or a finite   *)
(* decimal (-1)^neg * m * 10^e with m not divisible by 10; the rounding of *)
(* a decimal to the nearest binary double is not represented.              *)

Digits == {"0", "1", "2", "3", "4", "5", "6", "7", "8", "9"}

DigitVal(c) ==
    CASE c = "0" -> 0 [] c = "1" -> 1 [] c = "2" -> 2 [] c = "3" -> 3 [] c = "4" -> 4
      [] c = "5" -> 5 [] c = "6" -> 6 [] c = "7" -> 7 [] c = "8" -> 8 [] c = "9" -> 9

\* str.lower() on the letters the inputs use
Lower(c) ==
    CASE c = "N" -> "n" [] c = "A" -> "a" [] c = "I" -> "i" [] c = "F" -> "f"
      [] c = "E" -> "e" [] OTHER -> c

LowerAll(s) == [i \in 1..Len(s) |-> Lower(s[i])]

RECURSIVE LStrip(_)
LStrip(s) == IF s # <<>> /\ s[1] = " " THEN LStrip(Tail(s)) ELSE s

RECURSIVE RStrip(_)
RStrip(s) ==
    IF s # <<>> /\ s[Len(s)] = " " THEN RStrip(SubSeq(s, 1, Len(s) - 1)) ELSE s

RECURSIVE TakeDigits(_, _)
\* the longest digit run at the start of s; one '_' is allowed between digits
TakeDigits(s, acc) ==
    IF s # <<>> /\ s[1] \in Digits THEN TakeDigits(Tail(s), Append(acc, s[1]))
    ELSE IF Len(s) >= 2 /\ s[1] = "_" /\ acc # <<>> /\ s[2] \in Digits
         THEN TakeDigits(Tail(s), acc)
    ELSE [digits |-> acc, rest |-> s]

RECURSIVE DigitsToNat(_, _)
DigitsToNat(ds, acc) ==
    IF ds = <<>> THEN acc ELSE DigitsToNat(Tail(ds), 10 * acc + DigitVal(ds[1]))

RECURSIVE NumDigits(_)
NumDigits(n) == IF n < 10 THEN 1 ELSE 1 + NumDigits(n \div 10)

RECURSIVE Pow10(_)
Pow10(k) == IF k = 0 THEN 1 ELSE 10 * Pow10(k - 1)

Nan == [t |-> "float", cls |-> "nan", neg |-> FALSE, m |-> 0, e |-> 0]

Inf(neg) == [t |-> "float", cls |-> "inf", neg |-> neg, m |-> 0, e |-> 0]

RECURSIVE Finite(_, _, _)
\* the finite float (-1)^neg * m * 10^e, normalised; a magnitude of 10^309 or
\* more overflows to inf and one below 10^-324 underflows to zero
Finite(neg, m, e) ==
    IF m = 0 THEN [t |-> "float", cls |-> "fin", neg |-> FALSE, m |-> 0, e |-> 0]
    ELSE IF m % 10 = 0 THEN Finite(neg, m \div 10, e + 1)
    ELSE IF NumDigits(m) + e - 1 > 308 THEN Inf(neg)
    ELSE IF NumDigits(m) + e - 1 < -324 THEN Finite(FALSE, 0, 0)
    ELSE [t |-> "float", cls |-> "fin", neg |-> neg, m |-> m, e |-> e]

NotANumber == [ok |-> FALSE, v |-> Nan]

\* the exponent part of a decimal: [eE][+-]?digits, then nothing
ParseExponent(s) ==
    IF s = <<>> THEN [ok |-> TRUE, v |-> 0]
    ELSE IF Lower(s[1]) # "e" THEN [ok |-> FALSE, v |-> 0]
    ELSE LET r == Tail(s)
             signed == r # <<>> /\ r[1] \in {"+", "-"}
             d == TakeDigits(IF signed THEN Tail(r) ELSE r, <<>>)
             n == DigitsToNat(d.digits, 0)
         IN  IF d.digits = <<>> \/ d.rest # <<>> THEN [ok |-> FALSE, v |-> 0]
             ELSE [ok |-> TRUE, v |-> IF signed /\ r[1] = "-" THEN -n ELSE n]

\* digits [. digits] [exponent], with a digit on at least one side of the '.'
ParseDecimal(neg, s) ==
    LET ip == TakeDigits(s, <<>>)
        dotted == ip.rest # <<>> /\ ip.rest[1] = "."
        fp == IF dotted THEN TakeDigits(Tail(ip.rest), <<>>)
              ELSE [digits |-> <<>>, rest |-> ip.rest]
        ex == ParseExponent(fp.rest)
    IN  IF (ip.digits = <<>> /\ fp.digits = <<>>) \/ ~ex.ok THEN NotANumber
        ELSE [ok |-> TRUE,
              v |-> Finite(neg, DigitsToNat(ip.digits \o fp.digits, 0),
                           ex.v - Len(fp.digits))]

\* float(s) for a str s: ok is FALSE where Python raises ValueError
ParseFloat(s) ==
    LET b == RStrip(LStrip(s))
        signed == b # <<>> /\ b[1] \in {"+", "-"}
        neg == signed /\ b[1] = "-"
        body == IF signed THEN Tail(b) ELSE b
        word == LowerAll(body)
    IN  IF word = <<"n", "a", "n">> THEN [ok |-> TRUE, v |-> Nan]
        ELSE IF word = <<"i", "n", "f">>
                 \/ word = <<"i", "n", "f", "i", "n", "i", "t", "y">>
             THEN [ok |-> TRUE, v |-> Inf(neg)]
        ELSE ParseDecimal(neg, body)

\* float(x): TypeError for None, ValueError for a str that is no number
py_float(x) ==
    IF x = None THEN [raised |-> "TypeError", v |-> Nan]
    ELSE IF ~ParseFloat(x.s).ok THEN [raised |-> "ValueError", v |-> Nan]
    ELSE [raised |-> "", v |-> ParseFloat(x.s).v]

\* Downloader.is_float: only ValueError is caught (the TypeError of a None
\* would propagate; every caller tests the value's truth first)
is_float(value) == py_float(value).raised = ""

-----------------------------------------------------------------------------
(* os.utime(path, times=(atime, mtime)) with float times.                  *)

\* the float fits time_t (64 bits): its magnitude is below 2^63 = 9.22...e18
\* (decided on the decimal order of magnitude and the first three digits)
FitsTimeT(v) ==
    \/ v.m = 0
    \/ NumDigits(v.m) + v.e - 1 < 18
    \/ /\ NumDigits(v.m) + v.e - 1 = 18
       /\ (IF NumDigits(v.m) >= 3 THEN v.m \div Pow10(NumDigits(v.m) - 3)
           ELSE v.m * Pow10(3 - NumDigits(v.m))) < 922

\* the conversion of one time to a timespec: NaN is a ValueError, a value
\* outside time_t an OverflowError, anything else is rounded down to whole
\* nanoseconds
ToTimespec(v) ==
    IF v.cls = "nan" THEN [raised |-> "ValueError", v |-> v]
    ELSE IF v.cls = "inf" \/ ~FitsTimeT(v) THEN [raised |-> "OverflowError", v |-> v]
    ELSE IF v.e >= -9 THEN [raised |-> "", v |-> v]
    ELSE LET k == (-9) - v.e
             q == IF k >= NumDigits(v.m) THEN 0 ELSE v.m \div Pow10(k)
             ns == IF v.neg THEN q + 1 ELSE q
         IN  [raised |-> "", v |-> Finite(v.neg, ns, -9)]

\* os.utime on an existing file: the new (atime, mtime) or the error
os_utime(times, atime, mtime) ==
    LET a == ToTimespec(atime)
        m == ToTimespec(mtime)
    IN  IF a.raised # "" THEN [raised |-> a.raised, times |-> times]
        ELSE IF m.raised # "" THEN [raised |-> m.raised, times |-> times]
        ELSE [raised |-> "", times |-> <<a.v, m.v>>]

-----------------------------------------------------------------------------
(* Downloader.generate_download_response.                                  *)

DownloadResponse(fd, path) == [t |-> "DownloadResponse", file_data |-> fd, path |-> path]

\* only date_modified is checked before both are converted
should_set_times_modified_only(md) ==
    Truthy(md.date_modified) /\ is_float(md.date_modified)

\* the condition of generate_download_response
should_set_times(md) ==
    /\ Truthy(md.date_modified)
    /\ is_float(md.date_modified)
    /\ Truthy(md.date_created)
    /\ is_float(md.date_created)

\* the call's outcome: what it returns or raises, and the file's times after
generate_download_response(fd, download_path, times) ==
    IF should_set_times(fd.metadata)
    THEN LET date_modified == py_float(fd.metadata.date_modified)
             date_created == py_float(fd.metadata.date_created)
             ut == os_utime(times, date_created.v, date_modified.v)
         IN  IF date_modified.raised # ""
             THEN [raised |-> date_modified.raised, ret |-> None, times |-> times]
             ELSE IF date_created.raised # ""
             THEN [raised |-> date_created.raised, ret |-> None, times |-> times]
             ELSE IF ut.raised # ""
             THEN [raised |-> ut.raised, ret |-> None, times |-> times]
             ELSE [raised |-> "", ret |-> DownloadResponse(fd, download_path),
                   times |-> ut.times]
    ELSE [raised |-> "", ret |-> DownloadResponse(fd, download_path), times |-> times]

-----------------------------------------------------------------------------
(* One generate_download_response call after a download (SpecTimes).       *)

DateAlphabet == {"1", ".", "e", "-"}

\* date strings beyond the enumerated ones
SpecialDates ==
    {<<"n", "a", "n">>, <<"N", "a", "N">>, <<"i", "n", "f">>, <<"-", "i", "n", "f">>,
     <<"I", "n", "f", "i", "n", "i", "t", "y">>,
     <<"1", "e", "1", "9">>, <<"9", "e", "1", "8">>, <<"1", "e", "9", "9", "9">>,
     <<"1", "e", "-", "1">>, <<"1", "e", "-", "1", "1">>, <<"1", ".", "5">>,
     <<"1", "_", "1">>, <<"_", "1">>, <<" ", "1", " ">>, <<"+", "1">>, <<"0">>,
     <<"x">>, <<"1", "7", "e", "8">>}

Dates ==
    {None} \cup {PyStr(d) : d \in StringsUpTo(DateAlphabet, MaxDateLen) \cup SpecialDates}

TimedFileDatas ==
    {[source_identifiers |-> SourceIdentifiers(PyStr(<<"a">>)),
      metadata |-> [date_modified |-> dm, date_created |-> dc]]
        : dm \in Dates, dc \in Dates}

DownloadPaths ==
    {[t |-> "Path", root |-> "/", parts |-> <<"data", "a">>],
     [t |-> "Path", root |-> "", parts |-> <<"out", "a">>]}

\* the times the file has when the fetch has written it
TimeOfDownload == Finite(FALSE, 18, 8)

InitTimes ==
    /\ connector_type \in ConnectorTypes
    /\ download_config = [download_dir |-> None]
    /\ file_data = None
    /\ op = NoOp
    /\ returned = <<>>
    /\ file_times = <<TimeOfDownload, TimeOfDownload>>
    /\ pc = <<>>
    /\ run_calls = <<>>
    /\ access_config = None
    /\ fs_files = {}

GenerateDownloadResponse ==
    \E fd \in TimedFileDatas, download_path \in DownloadPaths :
        LET r == generate_download_response(fd, download_path, file_times)
        IN  /\ op = NoOp
            /\ file_data' = fd
            /\ file_times' = r.times
            /\ op' = [name |-> "generate_download_response", ret |-> r.ret,
                      raised |-> r.raised, download_path |-> download_path]
            /\ UNCHANGED <<connector_type, download_config, returned, pc, run_calls,
                           access_config, fs_files>>

NextTimes == GenerateDownloadResponse

SpecTimes == InitTimes /\ [][NextTimes]_vars

\* x is present, not empty and a string float() accepts
NumericString(x) == x # None /\ x.s # <<>> /\ ParseFloat(x.s).ok

BothNumeric(fd) ==
    NumericString(fd.metadata.date_modified) /\ NumericString(fd.metadata.date_created)

Generated == op.name = "generate_download_response"

\* C7: with date_modified and date_created both numeric strings the call
\* sets the file's times to exactly (date_created, date_modified), raises
\* nothing and returns the response pairing file_data with download_path.
C7_SetsTimesExactly ==
    (Generated /\ BothNumeric(file_data)) =>
        /\ op.raised = ""
        /\ file_times = <<ParseFloat(file_data.metadata.date_created.s).v,
                          ParseFloat(file_data.metadata.date_modified.s).v>>
        /\ op.ret = DownloadResponse(file_data, op.download_path)

\* C8: with date_modified or date_created missing, empty or not numeric the
\* call leaves the file's times as they were, raises nothing and returns the
\* response pairing file_data with download_path.
C8_SkipsSilently ==
    [][(op'.name = "generate_download_response" /\ op.name = "none"
            /\ ~BothNumeric(file_data'))
        => /\ file_times' = file_times
           /\ op'.raised = ""
           /\ op'.ret = DownloadResponse(file_data', op'.download_path)]_vars

\* a call with a numeric date_modified and a date_created that is no number
C8_Witness ==
    /\ Generated
    /\ file_data.metadata.date_modified = PyStr(<<"1", "1">>)
    /\ file_data.metadata.date_created = PyStr(<<"x">>)
    /\ op.raised = ""
    /\ file_times = <<TimeOfDownload, TimeOfDownload>>

-----------------------------------------------------------------------------
(* Concurrent get_download_path calls on one Downloader (SpecConc). Each   *)
(* caller runs the method's lines in order; the callers' steps interleave  *)
(* freely, as threads of the pipeline driver do.                           *)

Callers == 1..NumCallers

ConcFileDatas ==
    {[source_identifiers |-> None, metadata |-> NoMetadata]}
    \cup {[source_identifiers |-> SourceIdentifiers(PyStr(r)), metadata |-> NoMetadata]
            : r \in {<<"a">>, <<"/", "a">>, <<"b", "/", "a">>}}

NotReturned == [name |-> "get_download_path", ret |-> None, raised |-> "", wrote |-> FALSE]

InitConc ==
    /\ connector_type \in ConnectorTypes
    /\ download_config \in {[download_dir |-> d] : d \in UserDownloadDirs}
    /\ file_data \in {f \in [Callers -> ConcFileDatas] :
                        \A c, d \in Callers : c # d => f[c] # f[d]}
    /\ op = [c \in Callers |-> NotReturned]
    /\ returned = [c \in Callers |-> None]
    /\ pc = [c \in Callers |-> "start"]
    /\ file_times = <<None, None>>
    /\ run_calls = <<>>
    /\ access_config = None
    /\ fs_files = {}

\* get_download_path, lines 37-42: the early returns and the strip are local
StartCall(c) ==
    /\ pc[c] = "start"
    /\ pc' = [pc EXCEPT ![c] = IF lacks_rel_path(file_data[c]) THEN "done" ELSE "check"]
    /\ UNCHANGED <<connector_type, download_config, file_data, op, returned,
                   file_times, run_calls, access_config, fs_files>>

\* download_dir, line 69: the test of download_config.download_dir
CheckDownloadDir(c) ==
    /\ pc[c] = "check"
    /\ pc' = [pc EXCEPT ![c] = IF download_config.download_dir = None
                               THEN "set" ELSE "return"]
    /\ UNCHANGED <<connector_type, download_config, file_data, op, returned,
                   file_times, run_calls, access_config, fs_files>>

\* the caller memoizes its own file's directory instead of the common one
SetDownloadDir_PerFile(c) ==
    /\ pc[c] = "set"
    /\ download_config' =
          [download_config EXCEPT !.download_dir =
              get_download_path(file_data[c], DefaultDownloadDir(connector_type))]
    /\ op' = [op EXCEPT ![c].wrote = TRUE]
    /\ pc' = [pc EXCEPT ![c] = "return"]
    /\ UNCHANGED <<connector_type, file_data, returned, file_times, run_calls,
                   access_config, fs_files>>

\* download_dir, lines 70-77: the write of the default
SetDownloadDir(c) ==
    /\ pc[c] = "set"
    /\ download_config' =
          [download_config EXCEPT !.download_dir = DefaultDownloadDir(connector_type)]
    /\ op' = [op EXCEPT ![c].wrote = TRUE]
    /\ pc' = [pc EXCEPT ![c] = "return"]
    /\ UNCHANGED <<connector_type, file_data, returned, file_times, run_calls,
                   access_config, fs_files>>

\* download_dir, line 78, and get_download_path, line 43
ReturnPath(c) ==
    /\ pc[c] = "return"
    /\ returned' = [returned EXCEPT ![c] = download_config.download_dir]
    /\ op' = [op EXCEPT ![c].ret =
                 get_download_path(file_data[c], download_config.download_dir)]
    /\ pc' = [pc EXCEPT ![c] = "done"]
    /\ UNCHANGED <<connector_type, download_config, file_data, file_times, run_calls,
                   access_config, fs_files>>

NextConc ==
    \E c \in Callers :
        \/ StartCall(c)
        \/ CheckDownloadDir(c)
        \/ SetDownloadDir(c)
        \/ ReturnPath(c)

SpecConc == InitConc /\ [][NextConc]_vars

\* C9: in every interleaving all callers obtain the same download_dir, the
\* stored download_dir never changes once it is set, and the calls write
\* nothing shared but download_config.download_dir (the FileData items and
\* connector_type stay as they were).
C9_ConcurrentResolutionAgrees ==
    /\ [](\A c, d \in Callers :
            (returned[c] # None /\ returned[d] # None) => returned[c] = returned[d])
    /\ [](\A c \in Callers : returned[c] # None => returned[c] = download_config.download_dir)
    /\ [][download_config.download_dir # None
            => download_config'.download_dir = download_config.download_dir]_vars
    /\ [][file_data' = file_data /\ connector_type' = connector_type]_vars

\* two callers both found download_dir unset, both wrote it, and both returned
C9_Witness ==
    /\ pc[1] = "done" /\ pc[2] = "done"
    /\ op[1].wrote /\ op[2].wrote
    /\ returned[1] # None
    /\ returned[1] = returned[2]

-----------------------------------------------------------------------------
(* run_async (SpecAsync). run is abstract: what it returns or raises is    *)
(* the backend's choice, drawn here from RunOutcomes.                      *)

AsyncFileDatas ==
    {[source_identifiers |-> SourceIdentifiers(PyStr(r)), metadata |-> NoMetadata]
        : r \in {<<"a">>, <<"/", "a">>, <<"b">>, <<"b", "/", "a">>}}

\* keyword options, as (name, value) pairs
KwargsSet ==
    {<<>>, <<<<"timeout", "5">>>>, <<<<"timeout", "5">>, <<"retries", "2">>>>}

RunOutcomes(fd) ==
    {[raised |-> "", ret |-> DownloadResponse(fd, p)] : p \in DownloadPaths}
    \cup {[raised |-> "FileNotFoundError", ret |-> None]}

\* self.run(file_data=file_data) : the keyword options are not passed on
Downloader_run_async_drops_kwargs(fd, kwargs, outcome) ==
    [calls |-> <<[file_data |-> fd, kwargs |-> <<>>]>>,
     raised |-> outcome.raised, ret |-> outcome.ret, suspended |-> 0]

\* Downloader.run_async: one call of run, whose outcome is the coroutine's;
\* the body holds no await, so it never suspends
Downloader_run_async(fd, kwargs, outcome) ==
    [calls |-> <<[file_data |-> fd, kwargs |-> kwargs]>>,
     raised |-> outcome.raised, ret |-> outcome.ret, suspended |-> 0]

\* the decorator, with the dependencies installed: the call goes through
requires_dependencies(call) == call

\* GcsDownloader.run_async: return await super().run_async(...)
GcsDownloader_run_async(fd, kwargs, outcome) ==
    requires_dependencies(Downloader_run_async(fd, kwargs, outcome))

InitAsync ==
    /\ connector_type \in ConnectorTypes
    /\ download_config = [download_dir |-> None]
    /\ file_data = None
    /\ op = NoOp
    /\ returned = <<>>
    /\ file_times = <<None, None>>
    /\ pc = <<>>
    /\ run_calls = <<>>
    /\ access_config = None
    /\ fs_files = {}

RunAsync ==
    \E fd \in AsyncFileDatas, kwargs \in KwargsSet :
        \E outcome \in RunOutcomes(fd) :
            LET r == Downloader_run_async(fd, kwargs, outcome)
            IN  /\ op = NoOp
                /\ file_data' = fd
                /\ run_calls' = run_calls \o r.calls
                /\ op' = [name |-> "run_async", ret |-> r.ret, raised |-> r.raised,
                          kwargs |-> kwargs, run |-> outcome, suspended |-> r.suspended]
                /\ UNCHANGED <<connector_type, download_config, returned, file_times,
                               pc, access_config, fs_files>>

GcsRunAsync ==
    \E fd \in AsyncFileDatas, kwargs \in KwargsSet :
        \E outcome \in RunOutcomes(fd) :
            LET r == GcsDownloader_run_async(fd, kwargs, outcome)
            IN  /\ op = NoOp
                /\ connector_type = "gcs"
                /\ file_data' = fd
                /\ run_calls' = run_calls \o r.calls
                /\ op' = [name |-> "gcs_run_async", ret |-> r.ret, raised |-> r.raised,
                          kwargs |-> kwargs, run |-> outcome, suspended |-> r.suspended]
                /\ UNCHANGED <<connector_type, download_config, returned, file_times,
                               pc, access_config, fs_files>>

NextAsync == RunAsync \/ GcsRunAsync

SpecAsync == InitAsync /\ [][NextAsync]_vars

\* C10: run_async invokes run exactly once, with the file_data and keyword
\* options it was given, yields what run returned or raised, and does not
\* suspend; GcsDownloader.run_async yields the same as its parent's.
C10_RunAsyncDelegatesToRun ==
    op.name \in {"run_async", "gcs_run_async"} =>
        /\ run_calls = <<[file_data |-> file_data, kwargs |-> op.kwargs]>>
        /\ op.raised = op.run.raised
        /\ op.ret = op.run.ret
        /\ op.suspended = 0

\* GcsDownloader.run_async passed two keyword options on and yielded run's error
C10_Witness ==
    /\ op.name = "gcs_run_async"
    /\ Len(op.kwargs) = 2
    /\ Len(run_calls) = 1
    /\ op.raised = "FileNotFoundError"

-----------------------------------------------------------------------------
(* json_to_dict (utils/string_and_date_utils.py): the parsed value of a    *)
(* string that is valid JSON, the string itself otherwise. The JSON read   *)
(* here has objects, arrays, strings without escapes, integers and null.   *)

JsonFail == [ok |-> FALSE, v |-> None, rest |-> <<>>]

RECURSIVE TakeUntilQuote(_, _)
\* the characters up to the closing quote of a JSON string
TakeUntilQuote(s, acc) ==
    IF s = <<>> \/ s[1] = "\\" THEN JsonFail
    ELSE IF s[1] = "\"" THEN [ok |-> TRUE, v |-> PyStr(acc), rest |-> Tail(s)]
    ELSE TakeUntilQuote(Tail(s), Append(acc, s[1]))

RECURSIVE DictSet(_, _, _)
\* d[k] = v on the items of a dict: a repeated key keeps its first position
DictSet(items, k, v) ==
    IF items = <<>> THEN <<<<k, v>>>>
    ELSE IF Head(items)[1] = k THEN <<<<k, v>>>> \o Tail(items)
    ELSE <<Head(items)>> \o DictSet(Tail(items), k, v)

\* -?(0|[1-9][0-9]*) at the start of s
ParseJsonInt(s) ==
    LET neg == s[1] = "-"
        d == TakeDigits(IF neg THEN Tail(s) ELSE s, <<>>)
        n == DigitsToNat(d.digits, 0)
    IN  IF d.digits = <<>> THEN JsonFail
        ELSE IF Len(d.digits) > 1 /\ d.digits[1] = "0" THEN JsonFail
        \* JSON has no '_' between digits
        ELSE IF Len(d.rest) + Len(d.digits) + (IF neg THEN 1 ELSE 0) # Len(s) THEN JsonFail
        ELSE [ok |-> TRUE,
              v |-> [t |-> "int", n |-> IF neg THEN -n ELSE n],
              rest |-> d.rest]

RECURSIVE ParseJsonValue(_)
RECURSIVE ParseJsonMembers(_, _, _)
RECURSIVE ParseJsonElements(_, _, _)

\* the members of an object after '{' (or after a ','), s without leading blanks
ParseJsonMembers(s, items, first) ==
    IF s = <<>> THEN JsonFail
    ELSE IF first /\ s[1] = "}"
         THEN [ok |-> TRUE, v |-> [t |-> "dict", items |-> items], rest |-> Tail(s)]
    ELSE IF s[1] # "\"" THEN JsonFail
    ELSE LET k == TakeUntilQuote(Tail(s), <<>>)
             a == LStrip(k.rest)
         IN  IF ~k.ok \/ a = <<>> \/ a[1] # ":" THEN JsonFail
             ELSE LET v == ParseJsonValue(Tail(a))
                      b == LStrip(v.rest)
                      now == DictSet(items, k.v, v.v)
                  IN  IF ~v.ok \/ b = <<>> THEN JsonFail
                      ELSE IF b[1] = "}"
                           THEN [ok |-> TRUE, v |-> [t |-> "dict", items |-> now],
                                 rest |-> Tail(b)]
                      ELSE IF b[1] = ","
                           THEN ParseJsonMembers(LStrip(Tail(b)), now, FALSE)
                      ELSE JsonFail

\* the elements of an array after '[' (or after a ','), s without leading blanks
ParseJsonElements(s, elems, first) ==
    IF s = <<>> THEN JsonFail
    ELSE IF first /\ s[1] = "]"
         THEN [ok |-> TRUE, v |-> [t |-> "list", elems |-> elems], rest |-> Tail(s)]
    ELSE LET v == ParseJsonValue(s)
             b == LStrip(v.rest)
         IN  IF ~v.ok \/ b = <<>> THEN JsonFail
             ELSE IF b[1] = "]"
                  THEN [ok |-> TRUE, v |-> [t |-> "list", elems |-> Append(elems, v.v)],
                        rest |-> Tail(b)]
             ELSE IF b[1] = ","
                  THEN ParseJsonElements(LStrip(Tail(b)), Append(elems, v.v), FALSE)
             ELSE JsonFail

\* one JSON value at the start of s, after blanks
ParseJsonValue(s) ==
    LET b == LStrip(s)
    IN  IF b = <<>> THEN JsonFail
        ELSE IF b[1] = "{" THEN ParseJsonMembers(LStrip(Tail(b)), <<>>, TRUE)
        ELSE IF b[1] = "[" THEN ParseJsonElements(LStrip(Tail(b)), <<>>, TRUE)
        ELSE IF b[1] = "\"" THEN TakeUntilQuote(Tail(b), <<>>)
        ELSE IF b[1] \in Digits \cup {"-"} THEN ParseJsonInt(b)
        ELSE IF Len(b) >= 4 /\ SubSeq(b, 1, 4) = <<"n", "u", "l", "l">>
             THEN [ok |-> TRUE, v |-> None, rest |-> SubSeq(b, 5, Len(b))]
        ELSE JsonFail

\* json.loads(s): one value and nothing but blanks after it
JsonLoads(s) ==
    LET r == ParseJsonValue(s)
    IN  IF r.ok /\ LStrip(r.rest) = <<>> THEN [ok |-> TRUE, v |-> r.v]
        ELSE [ok |-> FALSE, v |-> None]

json_to_dict(s) == IF JsonLoads(s).ok THEN JsonLoads(s).v ELSE PyStr(s)

-----------------------------------------------------------------------------
(* GcsAccessConfig.model_post_init.                                        *)

ALLOWED_AUTH_VALUES ==
    {<<"g", "o", "o", "g", "l", "e", "_", "d", "e", "f", "a", "u", "l", "t">>,
     <<"c", "a", "c", "h", "e">>,
     <<"a", "n", "o", "n">>,
     <<"b", "r", "o", "w", "s", "e", "r">>,
     <<"c", "l", "o", "u", "d">>}

\* Path(s).is_file(), files being the regular files that exist
is_file(s, files) == ParsePath(s) \in files

\* the token-file test is made before the JSON test
model_post_init_file_first(key, files) ==
    IF ~Truthy(key) THEN [raised |-> "", token |-> None]
    ELSE IF key.s \in ALLOWED_AUTH_VALUES THEN [raised |-> "", token |-> key]
    ELSE IF is_file(key.s, files) THEN [raised |-> "", token |-> key]
    ELSE IF json_to_dict(key.s).t = "dict"
         THEN [raised |-> "", token |-> json_to_dict(key.s)]
    ELSE [raised |-> "ValueError", token |-> None]

\* model_post_init: the token, or the error construction ends with
model_post_init(key, files) ==
    IF ~Truthy(key) THEN [raised |-> "", token |-> None]
    ELSE IF key.s \in ALLOWED_AUTH_VALUES THEN [raised |-> "", token |-> key]
    ELSE IF json_to_dict(key.s).t = "dict"
         THEN [raised |-> "", token |-> json_to_dict(key.s)]
    ELSE IF is_file(key.s, files) THEN [raised |-> "", token |-> key]
    ELSE [raised |-> "ValueError", token |-> None]

-----------------------------------------------------------------------------
(* Construction of a GcsAccessConfig (SpecGcs).                            *)

KeyAlphabet == {"{", "}", "a", "/"}

\* service_account_key values beyond the enumerated ones
SpecialKeys ==
    ALLOWED_AUTH_VALUES \cup
    {<<"{", "\"", "a", "\"", ":", "1", "}">>,
     <<"{", "\"", "a", "\"", ":", "{", "}", "}">>,
     <<"{", "\"", "a", "\"", ":", "1", ",", "\"", "a", "\"", ":", "2", "}">>,
     <<" ", "{", " ", "}", " ">>,
     <<"{", "\"", "a", "\"", ":", "1", ",", "}">>,
     <<"{", "a", ":", "1", "}">>,
     <<"{", "}", "x">>,
     <<"[", "]">>, <<"[", "{", "}", "]">>, <<"1">>, <<"\"", "a", "\"">>,
     <<"n", "u", "l", "l">>,
     <<"a", "n", "o", "n", " ">>, <<"A", "n", "o", "n">>,
     <<"k", ".", "j", "s", "o", "n">>, <<".", "/", "a">>, <<" ">>}

ServiceAccountKeys ==
    {None} \cup {PyStr(k) : k \in StringsUpTo(KeyAlphabet, MaxKeyLen) \cup SpecialKeys}

\* paths that may be regular files: a file can have any name, also that of
\* an authentication mode or of a JSON text
FileCandidates ==
    {ParsePath(<<"a">>), ParsePath(<<"/", "a">>), ParsePath(<<"{", "}">>),
     ParsePath(<<"a", "n", "o", "n">>), ParsePath(<<"k", ".", "j", "s", "o", "n">>)}

InitGcs ==
    /\ connector_type = "gcs"
    /\ download_config = [download_dir |-> None]
    /\ file_data = None
    /\ op = NoOp
    /\ returned = <<>>
    /\ file_times = <<None, None>>
    /\ pc = <<>>
    /\ run_calls = <<>>
    /\ access_config = None
    /\ fs_files \in SUBSET FileCandidates

\* GcsAccessConfig(service_account_key=key): the fields are set, then
\* model_post_init runs; when it raises, no object exists
ConstructGcsAccessConfig ==
    \E key \in ServiceAccountKeys :
        LET r == model_post_init(key, fs_files)
        IN  /\ op = NoOp
            /\ op' = [name |-> "GcsAccessConfig", ret |-> None, raised |-> r.raised,
                      service_account_key |-> key]
            /\ access_config' =
                  IF r.raised # "" THEN None
                  ELSE [t |-> "GcsAccessConfig", service_account_key |-> key,
                        token |-> r.token]
            /\ UNCHANGED <<connector_type, download_config, file_data, returned,
                           file_times, pc, run_calls, fs_files>>

NextGcs == ConstructGcsAccessConfig

SpecGcs == InitGcs /\ [][NextGcs]_vars

Constructing == op.name = "GcsAccessConfig"

IsMode(key) == key # None /\ key.s \in ALLOWED_AUTH_VALUES

IsJsonObject(key) == key # None /\ JsonLoads(key.s).ok /\ JsonLoads(key.s).v.t = "dict"

IsExistingFile(key) == key # None /\ ParsePath(key.s) \in fs_files

\* C2: construction raises ValueError for every service_account_key that is
\* not None, not a named mode, not a JSON object and not an existing file
\* (the empty string included).
C2_RaisesOnEveryOtherInput ==
    LET key == op.service_account_key
    IN  (/\ Constructing
         /\ key # None
         /\ ~IsMode(key)
         /\ ~IsJsonObject(key)
         /\ ~IsExistingFile(key))
        => op.raised = "ValueError"

\* C3: after a successful construction the token is None for None, the mode
\* for a named mode, the parsed mapping for a JSON object and the path string
\* for an existing file, the first form that matches deciding.
C3_TokenByFirstMatchingForm ==
    LET key == op.service_account_key
    IN  (Constructing /\ op.raised = "") =>
            /\ access_config # None
            /\ access_config.service_account_key = key
            /\ key = None => access_config.token = None
            /\ IsMode(key) => access_config.token = key
            /\ (~IsMode(key) /\ IsJsonObject(key))
                  => access_config.token = JsonLoads(key.s).v
            /\ (~IsMode(key) /\ ~IsJsonObject(key) /\ IsExistingFile(key))
                  => access_config.token = key

\* the key "{}" is a JSON object and the name of an existing file: the token
\* is the parsed (empty) mapping
C3_Witness ==
    /\ Constructing
    /\ op.raised = ""
    /\ op.service_account_key = PyStr(<<"{", "}">>)
    /\ IsExistingFile(op.service_account_key)
    /\ access_config.token = [t |-> "dict", items |-> <<>>]

=============================================================================
